---- MODULE Spec2Model ----
(***************************************************************************)
(* Model of cmd/queue-inmemory-webhook-forwarder/forwarder.go: the relay   *)
(* (forward), the accumulator (bgProcessor) and the delivery client        *)
(* (forwardEvents, forwardWithRetries).  Each goroutine is a program       *)
(* counter; the unbuffered channel msg is a rendezvous between the two;    *)
(* time is discrete, timers count down on Tick.                            *)
(***************************************************************************)
EXTENDS Integers, Sequences, FiniteSets, TLC

\* ---------------------------------------------------------------- bounds
MaxRecords == 3
MaxBatchSize == 2
MaxInterval == 2
MaxErrCap == 1

\* ------------------------------------------------------ program constants
retrySleepInterval == 2
retryLimit == 3

VARIABLES
    w,              \* the webhookForwarder: endpoint, batchSize, batchInterval, retry settings
    errCap,         \* capacity of errCh (made by the caller of forward)
    taken,          \* number of records forward has taken from msgStream
    srcClosed,      \* msgStream has been closed by the producer
    fpc,            \* forward: position
    ms,             \* forward: the record held between the range and the send
    bpc,            \* bgProcessor (and its callees): position
    eventsPayload,  \* bgProcessor: the buffer
    deadline,       \* bgProcessor: the timer channel (Nil, or ticks left)
    feArg,          \* forwardEvents: its eventsPayload argument
    feInterval,     \* forwardEvents: its batchInterval argument
    req,            \* forwardWithRetries: the request (unread body, content length)
    retries,        \* forwardWithRetries: retries
    lastErr,        \* forwardWithRetries: lastErr
    lastStatusCode, \* forwardWithRetries: lastStatusCode
    sleepLeft,      \* forwardWithRetries: ticks left of the running time.Sleep
    ret,            \* forwardWithRetries: its result (statusCode, err)
    errCh,          \* the error sink: the errors buffered in the channel
    errsRead,       \* history: the number of errors the sink's reader received
    accepted,       \* history: records bgProcessor received from msg, in order
    flushLog,       \* history: batches handed to forwardWithRetries, with outcome
    attemptLog,     \* history: the sleeps and HTTP attempts of the current batch, summed up
    sinceArm        \* history: ticks since deadline was last armed (saturating)

vars == <<w, errCap, taken, srcClosed, fpc, ms, bpc,
          eventsPayload, deadline, feArg, feInterval, req, retries, lastErr,
          lastStatusCode, sleepLeft, ret, errCh, errsRead, accepted, flushLog,
          attemptLog, sinceArm>>

\* ------------------------------------------------------------- data model
Nil == -1

StatusCodes == {200, 299, 300, 503}

Endpoints == {"valid", "malformed"}

\* an error value: the chain of errors.Wrap contexts, outermost first, its
\* kind and, for the unexpected-status error, the status it names
NoErr == [ctx |-> <<>>, kind |-> "nil", got |-> 0]

MkErr(kind, got) == [ctx |-> <<>>, kind |-> kind, got |-> got]

Wrap(err, context) == [err EXCEPT !.ctx = <<context>> \o @]

NoReq == [body |-> <<>>, contentLength |-> 0]

NoRet == [statusCode |-> 0, err |-> NoErr]

\* a status of the range [200,300)
In2xx(status) == status \in 200..299

\* the history of a batch's delivery: the number of calls of Do and of
\* time.Sleep so far, the time asked of the sleeps, the latest call of Do (the
\* body it sent, its error, the status it got), the status of the latest
\* response, the number of 2xx responses, and whether the endpoint was
\* reached by every connection and answered 503 to every request it got;
\* fatal: the failure of json.Marshal or of the URL's parse, if any
NoDo == [sent |-> <<>>, err |-> "none", status |-> 0]

NoLog == [attempts |-> 0, sleeps |-> 0, slept |-> 0, last |-> NoDo, lastStatus |-> 0,
          succ |-> 0, all503 |-> TRUE, fatal |-> "nil"]

\* the history of a batch's delivery: json.Marshal or http.NewRequest failed
LogFatal(log, kind) == [log EXCEPT !.fatal = IF kind = "nil" THEN @ ELSE kind]

\* a delivery succeeded when a 2xx response came, and failed otherwise
Outcome(log) == IF log.succ > 0 THEN "ok" ELSE "failed"

LogSleep(log, d) == [log EXCEPT !.sleeps = @ + 1, !.slept = @ + d]

LogDo(log, sent, err, status) ==
    [log EXCEPT !.attempts = @ + 1,
                !.last = [sent |-> sent, err |-> err, status |-> status],
                !.lastStatus = IF err = "nil" THEN status ELSE @,
                !.succ = IF err = "nil" /\ In2xx(status) THEN @ + 1 ELSE @,
                !.all503 = @ /\ (err = "body" \/ (err = "nil" /\ status = 503))]

Flags == [postEndpoint : Endpoints, batchSize : 0..MaxBatchSize, batchInterval : 0..MaxInterval]

newWebhookForwarderHandler(flags) ==
    [endpoint |-> flags.postEndpoint,
     batchSize |-> flags.batchSize,
     batchInterval |-> flags.batchInterval,
     retrySleepInterval |-> retrySleepInterval,
     retryLimit |-> retryLimit]

\* json.Marshal of a slice of records: a JSON array, one element per record,
\* in slice order
EncodeRecord(r) == <<"json", r>>

Marshal(payload) == [i \in 1..Len(payload) |-> EncodeRecord(payload[i])]

\* mutant: the failure of the URL's parse is dropped
NewRequestLenient(endpoint, body) ==
    [err |-> NoErr, req |-> [body |-> body, contentLength |-> Len(body)]]

\* http.NewRequest(POST, endpoint, bytes.NewBuffer(body)): fails on a URL that
\* does not parse; the request keeps the buffer as its body reader
NewRequest(endpoint, body) ==
    IF endpoint = "malformed"
    THEN [err |-> MkErr("url", 0), req |-> NoReq]
    ELSE [err |-> NoErr, req |-> [body |-> body, contentLength |-> Len(body)]]

\* time.After(d): a channel that becomes ready d ticks from now
After(d) == d

Ready(ch) == ch = 0

Fired == -2

\* mutant: the deadline armed one tick short
ArmDeadlineShort(old) == IF w.batchInterval > 0 THEN After(w.batchInterval - 1) ELSE old

\* the deadline bgProcessor arms: time.After(w.batchInterval) when enabled
ArmDeadline(old) == IF w.batchInterval > 0 THEN After(w.batchInterval) ELSE old

\* mutant: the size trigger one record late
SizeReachedLate(buf) == w.batchSize > 0 /\ Len(buf) > w.batchSize

\* the size trigger of bgProcessor's loop
SizeReached(buf) == w.batchSize > 0 /\ Len(buf) >= w.batchSize

\* mutant: only 200 taken for a success
IsSuccessOnly200(status) == status = 200

\* the 2xx test of forwardWithRetries
IsSuccess(status) == status >= 200 /\ status < 300

Flat(log) ==
    LET F[i \in 0..Len(log)] == IF i = 0 THEN <<>> ELSE F[i - 1] \o log[i].batch
    IN F[Len(log)]

Min(a, b) == IF a < b THEN a ELSE b

\* ------------------------------------------------------------------- Init
Init ==
    /\ w \in {newWebhookForwarderHandler(f) : f \in Flags}
    /\ errCap \in 0..MaxErrCap
    /\ taken = 0
    /\ srcClosed = FALSE
    /\ fpc = "spawn"
    /\ ms = 0
    /\ bpc = "idle"
    /\ eventsPayload = <<>>
    /\ deadline = Nil
    /\ feArg = <<>>
    /\ feInterval = FALSE
    /\ req = NoReq
    /\ retries = 0
    /\ lastErr = NoErr
    /\ lastStatusCode = 0
    /\ sleepLeft = 0
    /\ ret = NoRet
    /\ errCh = <<>>
    /\ errsRead = 0
    /\ accepted = <<>>
    /\ flushLog = <<>>
    /\ attemptLog = NoLog
    /\ sinceArm = 0

cfgVars == <<w, errCap>>
srcVars == <<taken, srcClosed>>
fwrVars == <<req, retries, lastErr, lastStatusCode, sleepLeft, ret>>
sinkVars == <<errCh, errsRead>>

\* ------------------------------------------------------------ the producer
\* the producer closes msgStream
CloseStream ==
    /\ ~srcClosed
    /\ srcClosed' = TRUE
    /\ UNCHANGED <<cfgVars, taken, fpc, ms, bpc, eventsPayload, deadline, feArg,
                   feInterval, fwrVars, sinkVars, accepted, flushLog, attemptLog, sinceArm>>

\* ---------------------------------------------------------------- forward
\* forward: make(chan) and go w.bgProcessor(ctx, msg, errCh)
ForwardSpawn ==
    /\ fpc = "spawn"
    /\ fpc' = "range"
    /\ bpc' = "start"
    /\ UNCHANGED <<cfgVars, srcVars, ms, eventsPayload, deadline, feArg, feInterval,
                   fwrVars, sinkVars, accepted, flushLog, attemptLog, sinceArm>>

\* mutant: a relay that does not wait for the accumulator: it takes the next
\* record while the one it holds is still unsent, and drops that one
ForwardRangeDropping ==
    /\ fpc \in {"range", "send"}
    /\ ~srcClosed
    /\ taken < MaxRecords
    /\ taken' = taken + 1
    /\ ms' = taken + 1
    /\ fpc' = "send"
    /\ UNCHANGED <<cfgVars, srcClosed, bpc, eventsPayload, deadline, feArg, feInterval,
                   fwrVars, sinkVars, accepted, flushLog, attemptLog, sinceArm>>

\* forward: for ms := range msgStream, one record taken
ForwardRange ==
    /\ fpc = "range"
    /\ ~srcClosed
    /\ taken < MaxRecords
    /\ taken' = taken + 1
    /\ ms' = taken + 1
    /\ fpc' = "send"
    /\ UNCHANGED <<cfgVars, srcClosed, bpc, eventsPayload, deadline, feArg, feInterval,
                   fwrVars, sinkVars, accepted, flushLog, attemptLog, sinceArm>>

\* mutant: forward returns on the closed stream with its record not handed over
ForwardReturnEarly ==
    /\ fpc \in {"range", "send"}
    /\ srcClosed
    /\ fpc' = "done"
    /\ UNCHANGED <<cfgVars, srcVars, ms, bpc, eventsPayload, deadline, feArg, feInterval,
                   fwrVars, sinkVars, accepted, flushLog, attemptLog, sinceArm>>

\* forward: the range ends on the closed stream and forward returns
ForwardReturn ==
    /\ fpc = "range"
    /\ srcClosed
    /\ fpc' = "done"
    /\ UNCHANGED <<cfgVars, srcVars, ms, bpc, eventsPayload, deadline, feArg, feInterval,
                   fwrVars, sinkVars, accepted, flushLog, attemptLog, sinceArm>>

\* ------------------------------------------------------------ bgProcessor
\* bgProcessor: the empty buffer and the first deadline
BgStart ==
    /\ bpc = "start"
    /\ eventsPayload' = <<>>
    /\ deadline' = ArmDeadline(Nil)
    /\ sinceArm' = 0
    /\ bpc' = "top"
    /\ UNCHANGED <<cfgVars, srcVars, fpc, ms, feArg, feInterval, fwrVars, sinkVars,
                   accepted, flushLog, attemptLog>>

\* bgProcessor: the size check at the top of the loop; a full buffer is
\* passed to forwardEvents(..., false)
BgSizeCheck ==
    /\ bpc = "top"
    /\ IF SizeReached(eventsPayload)
       THEN /\ bpc' = "fe"
            /\ feArg' = eventsPayload
            /\ feInterval' = FALSE
       ELSE /\ bpc' = "select"
            /\ UNCHANGED <<feArg, feInterval>>
    /\ UNCHANGED <<cfgVars, srcVars, fpc, ms, eventsPayload, deadline, fwrVars, sinkVars,
                   accepted, flushLog, attemptLog, sinceArm>>

\* mutant: the received record put in front
AppendRecordFront(buf, ep) == <<ep>> \o buf

\* the buffer after the append of a received record
AppendRecord(buf, ep) == Append(buf, ep)

\* mutant: records also received while a flush is running, as if
\* forwardEvents had been started in a goroutine of its own
BgReceiveDuringFlush ==
    /\ bpc \in {"select", "marshal", "newreq", "loop", "sleep", "do", "result", "errsend"}
    /\ fpc = "send"
    /\ eventsPayload' = AppendRecord(eventsPayload, ms)
    /\ accepted' = Append(accepted, ms)
    /\ fpc' = "range"
    /\ bpc' = IF bpc = "select" THEN "top" ELSE bpc
    /\ UNCHANGED <<cfgVars, srcVars, ms, deadline, feArg, feInterval, fwrVars, sinkVars,
                   flushLog, attemptLog, sinceArm>>

\* bgProcessor: case ep := <-msg, the rendezvous with forward's msg <- ms
BgReceive ==
    /\ bpc = "select"
    /\ fpc = "send"
    /\ eventsPayload' = AppendRecord(eventsPayload, ms)
    /\ accepted' = Append(accepted, ms)
    /\ fpc' = "range"
    /\ bpc' = "top"
    /\ UNCHANGED <<cfgVars, srcVars, ms, deadline, feArg, feInterval, fwrVars, sinkVars,
                   flushLog, attemptLog, sinceArm>>

\* bgProcessor: case <-deadline, the buffer is passed to forwardEvents(..., true)
BgDeadline ==
    /\ bpc = "select"
    /\ Ready(deadline)
    /\ deadline' = Fired
    /\ bpc' = "fe"
    /\ feArg' = eventsPayload
    /\ feInterval' = TRUE
    /\ UNCHANGED <<cfgVars, srcVars, fpc, ms, eventsPayload, fwrVars, sinkVars, accepted,
                   flushLog, attemptLog, sinceArm>>

\* bgProcessor: default: continue, when neither case is ready
BgDefault ==
    /\ bpc = "select"
    /\ fpc # "send"
    /\ ~Ready(deadline)
    /\ bpc' = "top"
    /\ UNCHANGED <<cfgVars, srcVars, fpc, ms, eventsPayload, deadline, feArg, feInterval,
                   fwrVars, sinkVars, accepted, flushLog, attemptLog, sinceArm>>

\* mutant: bgProcessor goes no further when the delivery has failed
BgAfterFlushStopOnFailure ==
    /\ bpc = "flushed"
    /\ feArg # <<>> => flushLog[Len(flushLog)].outcome # "failed"
    /\ eventsPayload' = <<>>
    /\ deadline' = ArmDeadline(deadline)
    /\ sinceArm' = IF w.batchInterval > 0 THEN 0 ELSE sinceArm
    /\ bpc' = IF feInterval THEN "top" ELSE "select"
    /\ feArg' = <<>>
    /\ feInterval' = FALSE
    /\ UNCHANGED <<cfgVars, srcVars, fpc, ms, fwrVars, sinkVars,
                   accepted, flushLog, attemptLog>>

\* mutant: the batch of a failed delivery kept in the buffer for a resend
BgAfterFlushKeepFailed ==
    /\ bpc = "flushed"
    /\ eventsPayload' = IF feArg # <<>> /\ flushLog[Len(flushLog)].outcome = "failed"
                        THEN eventsPayload
                        ELSE <<>>
    /\ deadline' = ArmDeadline(deadline)
    /\ sinceArm' = IF w.batchInterval > 0 THEN 0 ELSE sinceArm
    /\ bpc' = IF feInterval THEN "top" ELSE "select"
    /\ feArg' = <<>>
    /\ feInterval' = FALSE
    /\ UNCHANGED <<cfgVars, srcVars, fpc, ms, fwrVars, sinkVars,
                   accepted, flushLog, attemptLog>>

\* mutant: the deadline reset after a deadline flush only, the one pending
\* kept after a size flush
BgAfterFlushStaleDeadline ==
    /\ bpc = "flushed"
    /\ eventsPayload' = <<>>
    /\ deadline' = IF feInterval THEN ArmDeadline(deadline) ELSE deadline
    /\ sinceArm' = IF w.batchInterval > 0 /\ feInterval THEN 0 ELSE sinceArm
    /\ bpc' = IF feInterval THEN "top" ELSE "select"
    /\ feArg' = <<>>
    /\ feInterval' = FALSE
    /\ UNCHANGED <<cfgVars, srcVars, fpc, ms, fwrVars, sinkVars,
                   accepted, flushLog, attemptLog>>

\* bgProcessor: after forwardEvents returns: clear cache, reset deadline; the
\* size branch goes on to the select, the deadline branch to the loop top
BgAfterFlush ==
    /\ bpc = "flushed"
    /\ eventsPayload' = <<>>
    /\ deadline' = ArmDeadline(deadline)
    /\ sinceArm' = IF w.batchInterval > 0 THEN 0 ELSE sinceArm
    /\ bpc' = IF feInterval THEN "top" ELSE "select"
    /\ feArg' = <<>>
    /\ feInterval' = FALSE
    /\ UNCHANGED <<cfgVars, srcVars, fpc, ms, fwrVars, sinkVars,
                   accepted, flushLog, attemptLog>>

\* ---------------------------------------------------------- forwardEvents
\* mutant: no guard against an empty batch
IsEmptyBatchNever(payload) == FALSE

\* the guard of forwardEvents against an empty batch
IsEmptyBatch(payload) == Len(payload) = 0

\* forwardEvents: return on an empty batch, else note the start time and
\* call forwardWithRetries
FeEnter ==
    /\ bpc = "fe"
    /\ IF IsEmptyBatch(feArg)
       THEN /\ bpc' = "flushed"
            /\ UNCHANGED <<flushLog, attemptLog>>
       ELSE /\ bpc' = "marshal"
            /\ flushLog' = Append(flushLog, [batch |-> feArg, byInterval |-> feInterval,
                                             outcome |-> "running"])
            /\ attemptLog' = NoLog
    /\ UNCHANGED <<cfgVars, srcVars, fpc, ms, eventsPayload, deadline, feArg, feInterval,
                   fwrVars, sinkVars, accepted, sinceArm>>

\* ----------------------------------------------------- forwardWithRetries
\* forwardWithRetries returns (statusCode, err) to forwardEvents
Return(statusCode, err) ==
    /\ ret' = [statusCode |-> statusCode, err |-> err]
    /\ bpc' = "result"

\* forwardWithRetries: bodyWebhook, the bytes json.Marshal made of the batch
bodyWebhook == Marshal(feArg)

\* forwardWithRetries: json.Marshal(eventsPayload); whether the records can
\* be encoded is the producer's choice; a failure is returned at once
FwrMarshal ==
    /\ bpc = "marshal"
    /\ \E err \in {NoErr, MkErr("json", 0)} :
          /\ attemptLog' = LogFatal(attemptLog, err.kind)
          /\ IF err # NoErr
             THEN Return(0, Wrap(err, "marshal"))
             ELSE /\ bpc' = "newreq"
                  /\ UNCHANGED ret
    /\ UNCHANGED <<cfgVars, srcVars, fpc, ms, eventsPayload, deadline, feArg, feInterval,
                   req, retries, lastErr, lastStatusCode, sleepLeft, sinkVars, accepted,
                   flushLog, sinceArm>>

\* forwardWithRetries: http.NewRequest, the header, the context, and the
\* loop's variables; a failure is returned at once
FwrNewRequest ==
    /\ bpc = "newreq"
    /\ LET r == NewRequest(w.endpoint, bodyWebhook)
       IN IF r.err # NoErr
          THEN /\ Return(0, Wrap(r.err, "new HTTP request"))
               /\ UNCHANGED <<req, retries, lastErr, lastStatusCode>>
          ELSE /\ req' = r.req
               /\ retries' = 0
               /\ lastErr' = NoErr
               /\ lastStatusCode' = 0
               /\ bpc' = "loop"
               /\ UNCHANGED ret
    /\ attemptLog' = LogFatal(attemptLog, IF w.endpoint = "malformed" THEN "url" ELSE "nil")
    /\ UNCHANGED <<cfgVars, srcVars, fpc, ms, eventsPayload, deadline, feArg, feInterval,
                   sleepLeft, sinkVars, accepted, flushLog, sinceArm>>

\* mutant: the retry budget spent one attempt early
ExhaustedEarly(n) == n >= w.retryLimit

\* the retry budget is spent
Exhausted(n) == n > w.retryLimit

\* a sleep precedes the attempt
NeedsSleep(n) == n >= 1

\* the length of the sleep before a retry
SleepFor(n) == w.retrySleepInterval

\* forwardWithRetries: the head of the retry loop: return when retries
\* exceeds the limit, sleep before each retry but not the first try
FwrLoop ==
    /\ bpc = "loop"
    /\ IF Exhausted(retries)
       THEN /\ Return(lastStatusCode, lastErr)
            /\ UNCHANGED <<sleepLeft, attemptLog>>
       ELSE IF NeedsSleep(retries)
       THEN /\ sleepLeft' = SleepFor(retries)
            /\ attemptLog' = LogSleep(attemptLog, SleepFor(retries))
            /\ bpc' = "sleep"
            /\ UNCHANGED ret
       ELSE /\ bpc' = "do"
            /\ UNCHANGED <<ret, sleepLeft, attemptLog>>
    /\ UNCHANGED <<cfgVars, srcVars, fpc, ms, eventsPayload, deadline, feArg, feInterval,
                   req, retries, lastErr, lastStatusCode, sinkVars, accepted, flushLog, sinceArm>>

\* forwardWithRetries: time.Sleep returns once the interval has passed
FwrWake ==
    /\ bpc = "sleep"
    /\ sleepLeft = 0
    /\ bpc' = "do"
    /\ UNCHANGED <<cfgVars, srcVars, fpc, ms, eventsPayload, deadline, feArg, feInterval,
                   fwrVars, sinkVars, accepted, flushLog, attemptLog, sinceArm>>

\* the loop's bookkeeping after a failed http.DefaultClient.Do
AfterDoError(kind) ==
    /\ lastErr' = Wrap(MkErr(kind, 0), "DO http client request")
    /\ retries' = retries + 1
    /\ bpc' = "loop"
    /\ UNCHANGED <<lastStatusCode, ret>>

\* the loop's handling of a response
AfterResponse(status) ==
    IF IsSuccess(status)
    THEN /\ Return(status, NoErr)
         /\ UNCHANGED <<retries, lastErr, lastStatusCode>>
    ELSE /\ lastErr' = MkErr("unexpected status code", status)
         /\ lastStatusCode' = status
         /\ retries' = retries + 1
         /\ bpc' = "loop"
         /\ UNCHANGED ret

\* Do fails before the transport reads the request body (dial failure,
\* cancelled context): the body reader keeps what it held
DoDialFails ==
    /\ attemptLog' = LogDo(attemptLog, <<>>, "dial", 0)
    /\ AfterDoError("dial")
    /\ UNCHANGED req

\* Do finds the body reader drained by an earlier attempt while the request
\* still announces contentLength bytes: the transport refuses to send
DoBodyMismatch ==
    /\ req.contentLength # Len(req.body)
    /\ attemptLog' = LogDo(attemptLog, <<>>, "body", 0)
    /\ AfterDoError("body")
    /\ UNCHANGED req

\* what a connected transport writes as the body: the unread rest of the
\* reader, or, when that is drained and the connection was a reused one, a
\* fresh copy from the request's GetBody
BodiesSendable == {b \in {req.body, bodyWebhook} : Len(b) = req.contentLength}

\* Do writes the request, draining the body reader, and a response arrives
DoResponds ==
    \E sent \in BodiesSendable, status \in StatusCodes :
        /\ req' = [req EXCEPT !.body = <<>>]
        /\ attemptLog' = LogDo(attemptLog, sent, "nil", status)
        /\ AfterResponse(status)

\* forwardWithRetries: one http.DefaultClient.Do(req) and what follows it
FwrDo ==
    /\ bpc = "do"
    /\ \/ DoDialFails
       \/ DoBodyMismatch
       \/ DoResponds
    /\ UNCHANGED <<cfgVars, srcVars, fpc, ms, eventsPayload, deadline, feArg, feInterval,
                   sleepLeft, sinkVars, accepted, flushLog, sinceArm>>

\* ------------------------------------------------- forwardEvents, the end
\* mutant: the error reported as it came, without its context
ReportedErrBare(err) == err

\* the error forwardEvents reports
ReportedErr(err) == Wrap(err, "forward with retries exhausted")

\* forwardEvents: the err != nil test after forwardWithRetries; the success
\* log line and the return
FeResult ==
    /\ bpc = "result"
    /\ IF ret.err # NoErr
       THEN /\ bpc' = "errsend"
            /\ ret' = [ret EXCEPT !.err = ReportedErr(ret.err)]
       ELSE /\ bpc' = "flushed"
            /\ ret' = NoRet
    /\ flushLog' = [flushLog EXCEPT ![Len(flushLog)].outcome = Outcome(attemptLog)]
    /\ req' = NoReq
    /\ retries' = 0
    /\ lastErr' = NoErr
    /\ lastStatusCode' = 0
    /\ attemptLog' = NoLog
    /\ UNCHANGED <<cfgVars, srcVars, fpc, ms, eventsPayload, deadline, feArg, feInterval,
                   sleepLeft, sinkVars, accepted, sinceArm>>

\* mutant: a send that never waits
CanBufferAlways == TRUE

\* errCh <- err can proceed: a free slot in the channel's buffer
CanBuffer == Len(errCh) < errCap

\* errCh <- err meets a receiver waiting on the empty channel
CanHandOver == errCh = <<>>

\* forwardEvents: errCh <- err into the channel's buffer, and the return
FeErrSendBuffered ==
    /\ bpc = "errsend"
    /\ CanBuffer
    /\ errCh' = Append(errCh, ret.err)
    /\ ret' = NoRet
    /\ bpc' = "flushed"
    /\ UNCHANGED <<cfgVars, srcVars, fpc, ms, eventsPayload, deadline, feArg, feInterval,
                   req, retries, lastErr, lastStatusCode, sleepLeft, errsRead, accepted, flushLog, attemptLog, sinceArm>>

\* forwardEvents: errCh <- err taken by a reader of the sink that is waiting on
\* the channel, and the return
FeErrSendDirect ==
    /\ bpc = "errsend"
    /\ CanHandOver
    /\ errsRead' = errsRead + 1
    /\ ret' = NoRet
    /\ bpc' = "flushed"
    /\ UNCHANGED <<cfgVars, srcVars, fpc, ms, eventsPayload, deadline, feArg, feInterval,
                   req, retries, lastErr, lastStatusCode, sleepLeft, errCh, accepted, flushLog, attemptLog, sinceArm>>

\* the reader of the error sink takes a buffered error
SinkRead ==
    /\ errCh # <<>>
    /\ errsRead' = errsRead + 1
    /\ errCh' = Tail(errCh)
    /\ UNCHANGED <<cfgVars, srcVars, fpc, ms, bpc, eventsPayload, deadline, feArg,
                   feInterval, fwrVars, accepted, flushLog, attemptLog, sinceArm>>

\* ------------------------------------------------------------------- time
CountDown(t) == IF t > 0 THEN t - 1 ELSE t

\* one unit of time passes: the pending timer and the running sleep advance
Tick ==
    /\ deadline > 0 \/ sleepLeft > 0 \/ (deadline >= 0 /\ sinceArm < w.batchInterval)
    /\ deadline' = CountDown(deadline)
    /\ sleepLeft' = CountDown(sleepLeft)
    /\ sinceArm' = IF deadline >= 0 THEN Min(sinceArm + 1, w.batchInterval) ELSE sinceArm
    /\ UNCHANGED <<cfgVars, srcVars, fpc, ms, bpc, eventsPayload, feArg, feInterval,
                   req, retries, lastErr, lastStatusCode, ret, sinkVars, accepted,
                   flushLog, attemptLog>>

\* ------------------------------------------------------------------- Spec
Next ==
    \/ CloseStream
    \/ ForwardSpawn
    \/ ForwardRange
    \/ ForwardReturn
    \/ BgStart
    \/ BgSizeCheck
    \/ BgReceive
    \/ BgDeadline
    \/ BgDefault
    \/ BgAfterFlush
    \/ FeEnter
    \/ FwrMarshal
    \/ FwrNewRequest
    \/ FwrLoop
    \/ FwrWake
    \/ FwrDo
    \/ FeResult
    \/ FeErrSendBuffered
    \/ FeErrSendDirect
    \/ SinkRead
    \/ Tick

Spec == Init /\ [][Next]_vars

\* the steps the bgProcessor goroutine takes on its own, up to the return of
\* client.Do and the buffered errCh <- err
BgRun ==
    \/ BgStart
    \/ BgSizeCheck
    \/ BgReceive
    \/ BgDeadline
    \/ BgDefault
    \/ BgAfterFlush
    \/ FeEnter
    \/ FwrMarshal
    \/ FwrNewRequest
    \/ FwrLoop
    \/ FwrWake
    \/ FwrDo
    \/ FeResult
    \/ FeErrSendBuffered

\* the steps the forward goroutine takes without a new record of the stream
ForwardRun == ForwardSpawn \/ ForwardReturn

\* the goroutines are scheduled and time passes; a select with several ready
\* cases picks each of them again and again; the error sink has a reader
Fairness ==
    /\ WF_vars(BgRun)
    /\ WF_vars(ForwardRun)
    /\ WF_vars(Tick)
    /\ SF_vars(BgReceive)
    /\ WF_vars(SinkRead)
    /\ WF_vars(FeErrSendDirect)

FairSpec == Spec /\ Fairness

\* ================================================================= claims
DeliveryPcs == {"marshal", "newreq", "loop", "sleep", "do", "result", "errsend"}

\* the records numbered (k-1)*n+1 .. k*n
Chunk(k, n) == [i \in 1..n |-> (k - 1) * n + i]

\* the accepted records no flush has taken yet
Unflushed == SubSeq(accepted, Len(Flat(flushLog)) + 1, Len(accepted))

\* errors the sink has accepted so far, and failed batches so far
ErrsSent == errsRead + Len(errCh)

Failed == Cardinality({k \in 1..Len(flushLog) : flushLog[k].outcome = "failed"})

\* C1: with batchSize = N > 0 and batchInterval = 0 the k-th batch handed to
\* delivery is the records (k-1)*N+1 .. k*N in arrival order, flushed by the
\* size trigger after its N-th record was accepted and before the next record
\* is accepted, so that the (N+1)-th record starts a new batch.
C1_SizeFlush ==
    (w.batchSize > 0 /\ w.batchInterval = 0) =>
        /\ \A k \in 1..Len(flushLog) :
              /\ flushLog[k].batch = Chunk(k, w.batchSize)
              /\ ~flushLog[k].byInterval
        /\ Len(flushLog) * w.batchSize <= Len(accepted)
        /\ Len(accepted) <= (Len(flushLog) + 1) * w.batchSize
        /\ (Len(accepted) > Len(flushLog) * w.batchSize => bpc \in {"top", "select", "fe"})
        /\ (bpc \in {"top", "select"} => eventsPayload = Unflushed)

C1_Witness ==
    /\ w.batchSize = 2
    /\ w.batchInterval = 0
    /\ Len(flushLog) = 1
    /\ flushLog[1].batch = <<1, 2>>
    /\ flushLog[1].outcome # "running"
    /\ eventsPayload = <<3>>

\* C2: with batchInterval = D > 0 and batchSize = 0 every firing of the
\* deadline passes to delivery, in one batch, all the records accepted since
\* the previous flush, in arrival order, and leaves none in the buffer; and
\* the deadline fires no earlier than D after it was armed.
C2_TimeFlush ==
    (w.batchInterval > 0 /\ w.batchSize = 0) =>
        /\ (bpc = "fe" =>
              /\ feInterval
              /\ feArg = Unflushed
              /\ sinceArm >= w.batchInterval)
        /\ (bpc \in DeliveryPcs =>
              /\ flushLog[Len(flushLog)].batch = feArg
              /\ flushLog[Len(flushLog)].byInterval
              /\ Flat(flushLog) = accepted)
        /\ (bpc \in {"top", "select"} => Flat(flushLog) \o eventsPayload = accepted)

C2_Witness ==
    /\ w.batchInterval > 0
    /\ w.batchSize = 0
    /\ Len(flushLog) = 2
    /\ flushLog[1].byInterval
    /\ Len(flushLog[1].batch) = 2
    /\ bpc = "top"
    /\ eventsPayload = <<>>

\* C3: a batch none of whose HTTP attempts succeeds gets exactly
\* retryLimit + 1 attempts and exactly retryLimit sleeps, each of
\* retrySleepInterval and one right before each attempt but the first; no
\* batch ever gets more than retryLimit + 1 attempts.
C3_RetryBound ==
    /\ attemptLog.attempts <= w.retryLimit + 1
    /\ attemptLog.sleeps <= attemptLog.attempts
    /\ attemptLog.attempts <= attemptLog.sleeps + 1
    /\ attemptLog.slept = attemptLog.sleeps * w.retrySleepInterval
    /\ (bpc = "do" => attemptLog.sleeps = attemptLog.attempts)
    /\ (bpc = "result" /\ attemptLog.attempts > 0 /\ attemptLog.succ = 0 =>
          /\ attemptLog.attempts = w.retryLimit + 1
          /\ attemptLog.sleeps = w.retryLimit)

C3_Witness ==
    /\ bpc = "result"
    /\ attemptLog.succ = 0
    /\ attemptLog.attempts = 4
    /\ attemptLog.sleeps = 3
    /\ attemptLog.slept = 6

\* C4: no serialization and no HTTP attempt is ever made for an empty batch;
\* a flush invoked on an empty buffer returns at once, with no HTTP call and
\* nothing sent to the error sink.
C4_NonEmptyBatch ==
    /\ (bpc \in DeliveryPcs => feArg # <<>>)
    /\ \A k \in 1..Len(flushLog) : flushLog[k].batch # <<>>
    /\ (attemptLog # NoLog => feArg # <<>>)
    /\ (bpc = "flushed" /\ feArg = <<>> =>
          /\ attemptLog = NoLog
          /\ ret = NoRet
          /\ ErrsSent = Failed)

C4_Witness ==
    /\ bpc = "flushed"
    /\ feArg = <<>>
    /\ feInterval
    /\ Len(flushLog) = 1

\* C5: once an attempt of a batch, the first or a retry, gets a status in
\* [200,300), forwardWithRetries returns that status with no error; no
\* further attempt and no further sleep happens for that batch.
C5_SuccessShortCircuit ==
    /\ (attemptLog.last.err = "nil" /\ In2xx(attemptLog.last.status) =>
          /\ bpc = "result"
          /\ ret = [statusCode |-> attemptLog.last.status, err |-> NoErr])
    /\ (attemptLog.succ > 0 =>
          /\ attemptLog.succ = 1
          /\ In2xx(attemptLog.last.status)
          /\ attemptLog.last.err = "nil")

C5_Witness ==
    /\ bpc = "result"
    /\ attemptLog.attempts = 2
    /\ attemptLog.sleeps = 1
    /\ attemptLog.last.status = 299
    /\ ret.statusCode = 299
    /\ ret.err = NoErr

\* the error of the latest call of Do, as forwardWithRetries words it
ErrOfLast(last) ==
    IF last.err = "nil"
    THEN MkErr("unexpected status code", last.status)
    ELSE Wrap(MkErr(last.err, 0), "DO http client request")

ExhaustedContext == "forward with retries exhausted"

IsReported(err) ==
    /\ err.kind # "nil"
    /\ Len(err.ctx) >= 1
    /\ err.ctx[1] = ExhaustedContext
    /\ \A i \in 2..Len(err.ctx) : err.ctx[i] # ExhaustedContext

IsPrefix(s, t) == Len(s) <= Len(t) /\ SubSeq(t, 1, Len(s)) = s

\* C6: when json.Marshal fails or http.NewRequest fails (a malformed endpoint
\* URL) forwardWithRetries returns status 0 and the error at once, with no
\* HTTP attempt and no sleep made; such an error is never retried.
C6_FatalShortCircuit ==
    /\ (attemptLog.fatal # "nil" =>
          /\ bpc = "result"
          /\ attemptLog.attempts = 0
          /\ attemptLog.sleeps = 0
          /\ ret.statusCode = 0
          /\ ret.err = Wrap(MkErr(attemptLog.fatal, 0),
                            IF attemptLog.fatal = "json" THEN "marshal" ELSE "new HTTP request"))
    /\ (w.endpoint = "malformed" =>
          /\ bpc \notin {"loop", "sleep", "do"}
          /\ attemptLog.attempts = 0
          /\ attemptLog.sleeps = 0)

C6_Witness ==
    /\ bpc = "result"
    /\ attemptLog.fatal = "url"
    /\ ret.err = Wrap(MkErr("url", 0), "new HTTP request")
    /\ Len(flushLog) = 2

\* C7: when all retryLimit + 1 attempts fail, forwardWithRetries returns the
\* error of the last attempt and the status of the last attempt that got a
\* response (0 if none did; a transport failure leaves it as it was); with an
\* endpoint that always answers 503 the result is 503 and the
\* unexpected-status error naming 503.
C7_ExhaustionOutcome ==
    (bpc = "result" /\ attemptLog.attempts = w.retryLimit + 1 /\ attemptLog.succ = 0) =>
        /\ ret.err # NoErr
        /\ ret.err = ErrOfLast(attemptLog.last)
        /\ ret.statusCode = attemptLog.lastStatus
        /\ (attemptLog.all503 =>
              ret = [statusCode |-> 503, err |-> MkErr("unexpected status code", 503)])

\* C8: for every non-empty batch flushed, forwardEvents sends exactly one
\* error to the error sink when the delivery failed, wrapped with the context
\* "forward with retries exhausted", and none when it succeeded: the errors
\* sent are as many as the failed batches.
C8_ErrorReporting ==
    /\ ErrsSent + (IF bpc = "errsend" THEN 1 ELSE 0) = Failed
    /\ \A i \in 1..Len(errCh) : IsReported(errCh[i])
    /\ (bpc = "errsend" =>
          /\ IsReported(ret.err)
          /\ flushLog[Len(flushLog)].outcome = "failed")
    /\ (bpc = "flushed" /\ feArg # <<>> => flushLog[Len(flushLog)].outcome \in {"ok", "failed"})
    /\ (bpc = "result" => (ret.err # NoErr <=> attemptLog.succ = 0))

C8_Witness ==
    /\ Len(flushLog) = 3
    /\ flushLog[1].outcome = "failed"
    /\ flushLog[2].outcome = "ok"
    /\ flushLog[3].outcome = "failed"
    /\ ErrsSent = 2
    /\ bpc = "flushed"

\* C9 (as stated): the hand-off of the error never waits for a reader of the
\* sink: whenever forwardEvents is at errCh <- err, the send can complete on
\* its own, even when nobody reads the sink.
C9_SendNeverWaits == bpc = "errsend" => CanBuffer

\* C9 (amended): errCh <- err is a blocking send: forwardEvents returns to the
\* accumulator only with the error accepted by the sink, into a free slot of
\* the channel's buffer or, when there is none, by a reader taking it.
C9_BlockingSend ==
    [][(bpc = "errsend" /\ bpc' # "errsend") =>
          /\ bpc' = "flushed"
          /\ ErrsSent' = ErrsSent + 1
          /\ (Len(errCh) >= errCap => (errsRead' = errsRead + 1 /\ errCh' = errCh))
          /\ Len(errCh') <= errCap]_vars

C9_Witness ==
    /\ bpc = "errsend"
    /\ errCap = 1
    /\ Len(errCh) = 1
    /\ Len(flushLog) = 2

\* C10: the batches handed to delivery, concatenated in flush order, are a
\* prefix of the records the accumulator accepted, which are a prefix of the
\* source stream in arrival order: nothing is reordered within or across
\* batches.
C10_OrderedDelivery ==
    /\ IsPrefix(Flat(flushLog), accepted)
    /\ accepted = [i \in 1..Len(accepted) |-> i]
    /\ Len(accepted) <= taken
    /\ (bpc \in {"top", "select", "fe"} => eventsPayload = Unflushed)

C10_Witness ==
    /\ w.batchSize = 2
    /\ w.batchInterval > 0
    /\ Len(flushLog) = 2
    /\ flushLog[1].byInterval
    /\ ~flushLog[2].byInterval
    /\ flushLog[2].batch = <<2, 3>>

\* the positions of a flush, from the call of forwardEvents to the reset
\* that follows its return
FlushPcs == {"fe", "flushed"} \cup DeliveryPcs

Elems(s) == {s[i] : i \in 1..Len(s)}

NoDup(s) == \A i, j \in 1..Len(s) : s[i] = s[j] => i = j

\* the step that follows the return of forwardEvents empties the buffer
DiscardStep == (bpc = "flushed" /\ bpc' # "flushed") => eventsPayload' = <<>>

\* C11: every record the accumulator accepted is in at most one batch handed
\* to delivery; when a batch's delivery has ended, in success or in failure,
\* the buffer is emptied and no later batch holds a record of it.
C11_AtMostOnce ==
    /\ [](LET flushed == Flat(flushLog)
          IN /\ NoDup(flushed)
             /\ Elems(flushed) \subseteq Elems(accepted)
             /\ (bpc \in {"top", "select"} =>
                   Elems(eventsPayload) \cap Elems(flushed) = {})
             /\ (bpc \in FlushPcs \ {"fe"} /\ feArg # <<>> =>
                   Elems(eventsPayload) \subseteq Elems(flushLog[Len(flushLog)].batch)))
    /\ [][DiscardStep]_vars

C11_Witness ==
    /\ Len(flushLog) = 2
    /\ flushLog[1].outcome = "failed"
    /\ flushLog[1].batch = <<1, 2>>
    /\ flushLog[2].outcome = "ok"
    /\ flushLog[2].batch = <<3>>
    /\ bpc = "select"

\* forward at msg <- ms takes nothing from the stream and leaves the send
\* only by the accumulator receiving the record it holds
HoldStep ==
    fpc = "send" =>
        /\ taken' = taken
        /\ ms' = ms
        /\ (fpc' # "send" => fpc' = "range" /\ accepted' = Append(accepted, ms))

\* C12: forward hands every record it took from the stream to the
\* accumulator once and in the order taken; while the accumulator is not
\* receiving, forward waits at the hand-off with that one record, takes no
\* other and drops none.
C12_RelayBackpressure ==
    /\ [](/\ taken = Len(accepted) + (IF fpc = "send" THEN 1 ELSE 0)
          /\ (fpc = "send" => ms = taken)
          /\ \A i \in 1..Len(accepted) : accepted[i] = i
          /\ (fpc = "done" => Len(accepted) = taken))
    /\ [][HoldStep]_vars

C12_Witness ==
    /\ fpc = "send"
    /\ ms = 3
    /\ bpc = "sleep"
    /\ accepted = <<1, 2>>

\* a step taken during a flush leaves the intake alone and starts no flush
FlushStep ==
    bpc \in FlushPcs =>
        /\ accepted' = accepted
        /\ (bpc # "fe" =>
              \/ flushLog' = flushLog
              \/ /\ bpc = "result"
                 /\ flushLog' = [flushLog EXCEPT ![Len(flushLog)].outcome = Outcome(attemptLog)])
        /\ (bpc # "flushed" => feArg' = feArg /\ eventsPayload' = eventsPayload)

\* C13: at most one batch of an accumulator is in its delivery sequence at a
\* time; from the start of a flush to the end of its whole sequence the
\* accumulator accepts no record and starts no other flush.
C13_SynchronousFlush ==
    /\ [](/\ \A k \in 1..(Len(flushLog) - 1) : flushLog[k].outcome # "running"
          /\ (bpc \in DeliveryPcs => flushLog[Len(flushLog)].batch = feArg)
          /\ (bpc \in {"top", "select"} =>
                \A k \in 1..Len(flushLog) : flushLog[k].outcome # "running"))
    /\ [][FlushStep]_vars

C13_Witness ==
    /\ bpc = "sleep"
    /\ fpc = "send"
    /\ Len(flushLog) = 2
    /\ Len(accepted) = 2

\* C14: every HTTP attempt of a batch, the first and each retry, carries the
\* complete JSON array of the batch's records in arrival order; none is made
\* with an empty, truncated or partial body.
C14_WholeBody ==
    attemptLog.attempts > 0 =>
        /\ attemptLog.last.err # "body"
        /\ (attemptLog.last.err = "nil" =>
              attemptLog.last.sent = [i \in 1..Len(feArg) |-> EncodeRecord(feArg[i])])

\* C15: with a reader on the error sink and HTTP attempts that return, every
\* flush, failed or not, is followed by the accumulator back at its wait, and
\* every record the relay offers is accepted; no delivery outcome ends
\* forward or bgProcessor.
C15_IngestionContinues ==
    /\ (bpc \in FlushPcs) ~> (bpc = "select")
    /\ \A r \in 1..MaxRecords : (fpc = "send" /\ ms = r) ~> (Len(accepted) >= r)
    /\ [][fpc' = "done" /\ fpc # "done" => srcClosed]_vars

C15_Witness ==
    /\ Len(flushLog) = 1
    /\ flushLog[1].outcome = "failed"
    /\ flushLog[1].batch = <<1, 2>>
    /\ accepted = <<1, 2, 3>>
    /\ bpc = "top"

\* C16: the batching is determined by the configuration, the records and the
\* timing of arrivals and deadline expiries: at no wait of the accumulator
\* are a record on the intake and an expired deadline both open to it, each
\* leading to another partition.
C16_Determinism == ~(ENABLED BgReceive /\ ENABLED BgDeadline)

\* C17: with the buffer below the size threshold, no record offered and the
\* deadline not expired, the accumulator is suspended: it makes no loop
\* iteration that neither receives a record nor handles a deadline.
C17_BlockingWait ==
    [][(bpc = "select" /\ fpc # "send" /\ ~Ready(deadline)) => bpc' = bpc]_vars

\* a step that leaves the start or the end of a flush arms a fresh deadline
ArmingStep ==
    (bpc \in {"start", "flushed"} /\ bpc' # bpc /\ w.batchInterval > 0) =>
        /\ deadline' = w.batchInterval
        /\ sinceArm' = 0

\* C18: with batchInterval > 0 a deadline of batchInterval is armed at start
\* and again when any flush has ended (by size, by time, or empty), the
\* accumulator waits on one pending deadline, and no time flush comes sooner
\* than batchInterval after the end of the flush before it; with
\* batchInterval = 0 no deadline is armed and no time flush happens.
C18_DeadlineArming ==
    /\ [](/\ (w.batchInterval = 0 =>
                /\ deadline = Nil
                /\ ~feInterval
                /\ \A k \in 1..Len(flushLog) : ~flushLog[k].byInterval)
          /\ (w.batchInterval > 0 /\ bpc \in {"top", "select"} =>
                deadline \in 0..w.batchInterval)
          /\ (bpc = "fe" /\ feInterval => sinceArm >= w.batchInterval))
    /\ [][ArmingStep]_vars

C18_Witness ==
    /\ w.batchInterval = 2
    /\ w.batchSize = 2
    /\ Len(flushLog) = 2
    /\ ~flushLog[1].byInterval
    /\ flushLog[2].byInterval
    /\ bpc = "top"
    /\ deadline = 2

\* a step from a full buffer accepts no record
FullStep ==
    (w.batchSize > 0 /\ Len(eventsPayload) >= w.batchSize) => accepted' = accepted

\* C19: with batchSize > 0 the buffer never holds more than batchSize
\* records, no record is accepted while it holds batchSize, every batch
\* handed to delivery has 1 to batchSize records and every size-triggered
\* one exactly batchSize, whatever batchInterval and the interleaving.
C19_BufferBound ==
    /\ [](w.batchSize > 0 =>
            /\ Len(eventsPayload) <= w.batchSize
            /\ (bpc = "select" => Len(eventsPayload) < w.batchSize)
            /\ \A k \in 1..Len(flushLog) :
                  /\ Len(flushLog[k].batch) \in 1..w.batchSize
                  /\ (~flushLog[k].byInterval => Len(flushLog[k].batch) = w.batchSize))
    /\ [][FullStep]_vars

C19_Witness ==
    /\ w.batchSize = 2
    /\ w.batchInterval > 0
    /\ Len(flushLog) = 2
    /\ flushLog[1].byInterval
    /\ flushLog[1].batch = <<1>>
    /\ ~flushLog[2].byInterval
    /\ flushLog[2].batch = <<2, 3>>

\* a flush started after forward has returned is one by time or by size
NoForcedFlush ==
    (fpc = "done" /\ Len(flushLog') > Len(flushLog)) =>
        \/ flushLog'[Len(flushLog')].byInterval
        \/ Len(flushLog'[Len(flushLog')].batch) = w.batchSize

\* a partial batch left without a deadline stays as it is
Stranded ==
    (/\ w.batchInterval = 0
     /\ fpc = "done"
     /\ bpc \in {"top", "select"}
     /\ ~SizeReached(eventsPayload)) =>
        /\ eventsPayload' = eventsPayload
        /\ flushLog' = flushLog
        /\ bpc' \in {"top", "select"}

\* C20: on a closed stream forward returns when every record it took has been
\* handed over; bgProcessor goes on and flushes nothing for the closure; the
\* records of a partial batch are handed to delivery by the next deadline
\* when batchInterval > 0 and stay in the buffer for ever when it is 0.
C20_StreamClosure ==
    /\ [](fpc = "done" => srcClosed /\ Len(accepted) = taken)
    /\ (srcClosed /\ fpc # "spawn") ~> (fpc = "done")
    /\ [][NoForcedFlush]_vars
    /\ (w.batchInterval > 0 /\ fpc = "done") ~> (Flat(flushLog) = accepted)
    /\ [][Stranded]_vars

C20_Witness ==
    /\ w.batchInterval = 0
    /\ w.batchSize = 2
    /\ fpc = "done"
    /\ bpc = "select"
    /\ eventsPayload = <<3>>
    /\ Flat(flushLog) = <<1, 2>>

====
